---------------------------- MODULE Spec2Model ----------------------------
(***************************************************************************)
(* Model of the hornet inbound message processor (package processor):      *)
(* the worker pool tasks, the WorkUnit cache, the per-WorkUnit state       *)
(* machine driven by processWorkUnit, and the external collaborators it    *)
(* talks to (request queue, tangle, peer manager, metrics, events).        *)
(***************************************************************************)
EXTENDS Integers, Sequences, FiniteSets, TLC

(***************************************************************************)
(* Bounds of the model.                                                    *)
(***************************************************************************)
NumPeers == 2
NumWorkers == 2
MaxTasks == 2
MaxRequests == 1
MaxEmits == 1
MaxMilestone == 2

\* const WorkerQueueSize
WorkerQueueSize == 50000

Peers == 1..NumPeers
Workers == 1..NumWorkers
\* The nil peer, nil request, nil message and the unlocked mutex.
Nil == 0

(***************************************************************************)
(* Payload byte strings.  Three classes of received bytes are told apart   *)
(* by what the code does with them: bytes that parse into a message,       *)
(* bytes on which tangle.MessageFromBytes returns an error, and bytes      *)
(* that parse but whose hash is in invalidMilestoneHashes.  A hash is      *)
(* named by the payload it is the hash of.                                 *)
(***************************************************************************)
WellFormed == {1}
Malformed == {2}
invalidMilestoneHashes == {3}
Payloads == WellFormed \cup Malformed \cup invalidMilestoneHashes

\* tangle.MessageFromBytes: the parsed message (named by its message ID) or
\* Nil when parsing returns an error.  The ID of payload x is 10 + x.
MessageFromBytes(bytes) == IF bytes \in Malformed THEN Nil ELSE 10 + bytes

MsgIDs == {MessageFromBytes(x) : x \in Payloads \ Malformed}

\* Message.RawBytes: the bytes message id was parsed from.
RawBytes(id) == CHOOSE bytes \in Payloads : MessageFromBytes(bytes) = id

\* sting message types the worker function dispatches on.
MessageTypeTransaction == "Transaction"
MessageTypeTransactionRequest == "TransactionRequest"
MessageTypeMilestoneRequest == "MilestoneRequest"

\* sting.NewTransactionMessage: the wire message that carries rawBytes.
NewTransactionMessage(rawBytes) == [type |-> MessageTypeTransaction, data |-> rawBytes]

(***************************************************************************)
(* Request byte strings.  A transaction request is told apart by its       *)
(* length and by the hash its bytes spell; a milestone request by whether  *)
(* an index can be extracted from it and by that index.                    *)
(***************************************************************************)
\* Length processMessageRequest insists on.
RequestLength == 49

TransactionRequests ==
    {[len |-> RequestLength, hash |-> id] : id \in MsgIDs}
        \cup {[len |-> n, hash |-> Nil] : n \in {RequestLength - 1, RequestLength + 1}}

\* sting.LatestMilestoneRequestIndex: the index that asks for the latest milestone.
LatestMilestoneRequestIndex == 0

\* Milestone indexes the tangle starts with: 1..MaxMilestone.
MilestoneIndexes == 1..MaxMilestone

MilestoneRequests ==
    {[wellFormed |-> FALSE, index |-> Nil]}
        \cup {[wellFormed |-> TRUE, index |-> i] :
                 i \in {LatestMilestoneRequestIndex, 1, MaxMilestone + 1}}

\* sting.ExtractRequestedMilestoneIndex: the index, or an error.
ExtractRequestedMilestoneIndex(data) ==
    [msIndex |-> data.index, err |-> ~data.wellFormed]

\* Milestone.GetMessage().GetTransactions(): the messages of a milestone.
GetTransactions(msIndex) == <<MessageFromBytes(1), MessageFromBytes(3)>>

\* The payloads Process may be handed for a message type.
DataOf(msgType) ==
    CASE msgType = MessageTypeTransaction -> Payloads
      [] msgType = MessageTypeTransactionRequest -> TransactionRequests
      [] msgType = MessageTypeMilestoneRequest -> MilestoneRequests

\* WorkUnitState
Unhashed == "Unhashed"
Hashing == "Hashing"
Hashed == "Hashed"
Invalid == "Invalid"

VARIABLES
    queue,          \* worker pool task queue: sequence of [peer, type, data]
    submitted,      \* number of tasks handed to Process so far
    workers,        \* worker -> its position in the task and its locals
    workUnits,      \* payload bytes -> cache entry (the WorkUnit and its retain count)
    pending,        \* request queue: message ID -> outstanding request handle or Nil
    nextRequest,    \* next fresh request handle
    tangle,         \* set of message IDs the tangle contains
    removed,        \* peers pm.Remove was called for
    InvalidTransactions, \* metrics.SharedServerMetrics.InvalidTransactions
    KnownTransactions,   \* metrics.SharedServerMetrics.KnownTransactions
    peerKnown,      \* peer -> p.Metrics.KnownTransactions
    mpCount,        \* payload -> peer -> MessageProcessed events fired for a delivery
    bcCount,        \* payload -> BroadcastMessage events fired for a delivery
    delivered,      \* payload -> peer -> number of tasks submitted
    emitter,        \* the caller of SerializeAndEmit
    sendQueue,      \* peer -> messages handed to p.EnqueueForSending, in order
    InvalidRequests,     \* metrics.SharedServerMetrics.InvalidRequests
    msgRetain,      \* message ID -> handles on the tangle's cached message not yet released
    milestones,     \* milestone indexes the tangle holds a milestone for
    unconfirmedPruned,   \* milestone indexes whose first-seen operations were deleted
    PruningIndex,   \* snapshotInfo.PruningIndex as stored by SetSnapshotInfo
    pruner          \* the caller of pruneDatabase

vars == <<queue, submitted, workers, workUnits, pending, nextRequest, tangle,
          removed, InvalidTransactions, KnownTransactions, peerKnown,
          mpCount, bcCount, delivered, emitter, sendQueue, InvalidRequests,
          msgRetain, milestones, unconfirmedPruned, PruningIndex, pruner>>

(***************************************************************************)
(* WorkUnit (the type and its methods; processor/work_unit.go).            *)
(***************************************************************************)
\* newWorkUnit: a fresh unit, wrapped in its cache entry (retain count).
\* parses, broadcasts and rfAtInvalid are history fields of the entry.
\* receivedTxHash is the hash of the received payload, the key of the
\* blocklist look-up; the unit has it from its construction on.
newWorkUnit(bytes) ==
    [cached |-> TRUE, receivedMsgBytes |-> bytes, state |-> Unhashed,
     receivedFrom |-> {}, msg |-> Nil, processingLock |-> Nil, dataLock |-> Nil,
     retain |-> 0, parses |-> 0, broadcasts |-> 0, rfAtInvalid |-> {},
     receivedTxHash |-> bytes]

\* A key the cache holds no entry for.
NoWorkUnit(bytes) == [newWorkUnit(bytes) EXCEPT !.cached = FALSE]

\* wu.Is(state)
Is(wu, state) == wu.state = state

\* wu.UpdateState(state)
UpdateState(wu, state) ==
    [wu EXCEPT !.state = state,
               !.rfAtInvalid = IF state = Invalid THEN wu.receivedFrom ELSE @]

\* wu.addReceivedFrom(p, nil): records the peer; the same peer coalesces.
addReceivedFrom(wu, p) == [wu EXCEPT !.receivedFrom = @ \cup {p}]

\* wu.punish(): every peer in received_from is handed to the peer manager's
\* Remove and counted as the sender of an invalid transaction.
punish(wu) == [remove |-> wu.receivedFrom, invalid |-> Cardinality(wu.receivedFrom)]

\* wu.increaseKnownTxCount(excludedPeer): the peers whose counter goes up.
increaseKnownTxCount(wu, excludedPeer) == wu.receivedFrom \ {excludedPeer}

\* wu.broadcast(): the Broadcast value (payload bytes, peers to skip).
broadcast(wu) == [MsgData |-> wu.receivedMsgBytes, ExcludePeers |-> wu.receivedFrom]

(***************************************************************************)
(* External collaborators.                                                 *)
(***************************************************************************)
\* requestQueue.Received(id): the outstanding request for id, or Nil.
Received(id) == pending[id]

\* tangle.ContainsMessage(id)
ContainsMessage(id) == id \in tangle

(***************************************************************************)
(* Initial state: New(...) has run, nothing was submitted.                 *)
(***************************************************************************)
IdleWorker ==
    [pc |-> "idle", peer |-> Nil, data |-> Nil, msg |-> Nil, request |-> Nil,
     containsTx |-> FALSE, hasher |-> FALSE, events |-> <<>>,
     type |-> "", cachedMsg |-> Nil, cachedReqMs |-> Nil, cachedMsgs |-> <<>>,
     msIndex |-> Nil, toSend |-> <<>>, sent |-> 0, lookups |-> 0]

IdleEmitter == [pc |-> "idle", calls |-> 0, ok |-> FALSE, events |-> <<>>, err |-> FALSE]

IdlePruner ==
    [pc |-> "idle", targetIndex |-> Nil, milestoneIndex |-> Nil, txHashes |-> {},
     txsToRemove |-> {}, caller |-> "", panic |-> ""]

Init ==
    /\ queue = <<>>
    /\ submitted = 0
    /\ workers = [w \in Workers |-> IdleWorker]
    /\ workUnits = [x \in Payloads |-> NoWorkUnit(x)]
    /\ pending = [m \in MsgIDs |-> Nil]
    /\ nextRequest = 1
    /\ tangle = {}
    /\ removed = {}
    /\ InvalidTransactions = 0
    /\ KnownTransactions = 0
    /\ peerKnown = [p \in Peers |-> 0]
    /\ mpCount = [x \in Payloads |-> [p \in Peers |-> 0]]
    /\ bcCount = [x \in Payloads |-> 0]
    /\ delivered = [x \in Payloads |-> [p \in Peers |-> 0]]
    /\ emitter = IdleEmitter
    /\ sendQueue = [p \in Peers |-> <<>>]
    /\ InvalidRequests = 0
    /\ msgRetain = [m \in MsgIDs |-> 0]
    /\ milestones = MilestoneIndexes
    /\ unconfirmedPruned = {}
    /\ PruningIndex = 0
    /\ pruner = IdlePruner

envVars == <<pending, nextRequest, tangle>>
requestVars == <<sendQueue, InvalidRequests, msgRetain>>
pruneVars == <<milestones, unconfirmedPruned, PruningIndex, pruner>>
metricVars == <<InvalidTransactions, KnownTransactions, peerKnown>>
eventVars == <<mpCount, bcCount>>

\* The worker moves on to position pc.
Goto(w, pc) == workers' = [workers EXCEPT ![w].pc = pc]

\* The WorkUnit the worker's task is about.
UnitOf(w) == workUnits[workers[w].data]

(***************************************************************************)
(* Process: the peer layer submits a message of a peer to the pool.        *)
(***************************************************************************)
Process(p, msgType, data) ==
    /\ submitted < MaxTasks
    /\ Len(queue) < WorkerQueueSize
    /\ queue' = Append(queue, [peer |-> p, type |-> msgType, data |-> data])
    /\ submitted' = submitted + 1
    /\ delivered' = IF msgType = MessageTypeTransaction
                       THEN [delivered EXCEPT ![data][p] = @ + 1]
                       ELSE delivered
    /\ UNCHANGED <<workers, workUnits, envVars, removed, metricVars, eventVars, emitter,
                   requestVars, pruneVars>>

\* A pool worker takes the next task and dispatches it on its message type.
TakeTask(w) ==
    /\ workers[w].pc = "idle"
    /\ queue # <<>>
    /\ workers' = [workers EXCEPT ![w] =
           [IdleWorker EXCEPT
               !.pc = CASE Head(queue).type = MessageTypeTransaction -> "workUnitFor"
                        [] Head(queue).type = MessageTypeTransactionRequest -> "messageRequest"
                        [] Head(queue).type = MessageTypeMilestoneRequest -> "milestoneRequest",
               !.type = Head(queue).type,
               !.peer = Head(queue).peer, !.data = Head(queue).data]]
    /\ queue' = Tail(queue)
    /\ UNCHANGED <<submitted, workUnits, envVars, removed, metricVars, eventVars,
                   delivered, emitter,
                   requestVars, pruneVars>>

(***************************************************************************)
(* processTransaction                                                      *)
(***************************************************************************)
\* proc.workUnitFor(data): ComputeIfAbsent returns a retained handle to the
\* entry of these bytes, creating the entry when the cache has none.
workUnitFor(w) ==
    /\ workers[w].pc = "workUnitFor"
    /\ LET x == workers[w].data
           wu == IF workUnits[x].cached THEN workUnits[x] ELSE newWorkUnit(x)
       IN workUnits' = [workUnits EXCEPT ![x] = [wu EXCEPT !.retain = @ + 1]]
    /\ Goto(w, "addReceivedFrom")
    /\ UNCHANGED <<queue, submitted, envVars, removed, metricVars, eventVars,
                   delivered, emitter,
                   requestVars, pruneVars>>

\* workUnit.addReceivedFrom(p, nil)
AddReceivedFrom(w) ==
    /\ workers[w].pc = "addReceivedFrom"
    /\ UnitOf(w).dataLock = Nil
    /\ workUnits' = [workUnits EXCEPT ![workers[w].data] =
                        addReceivedFrom(@, workers[w].peer)]
    /\ Goto(w, "lock")
    /\ UNCHANGED <<queue, submitted, envVars, removed, metricVars, eventVars,
                   delivered, emitter,
                   requestVars, pruneVars>>

\* The handle is never released.
ReleaseMissing(w) ==
    /\ workers[w].pc = "release"
    /\ workers' = [workers EXCEPT ![w] = IdleWorker]
    /\ UNCHANGED <<queue, submitted, workUnits, envVars, removed, metricVars, eventVars,
                   delivered, emitter,
                   requestVars, pruneVars>>

\* defer cachedWorkUnit.Release(), then task.Return(nil)
Release(w) ==
    /\ workers[w].pc = "release"
    /\ workUnits' = [workUnits EXCEPT ![workers[w].data].retain = @ - 1]
    /\ workers' = [workers EXCEPT ![w] = IdleWorker]
    /\ UNCHANGED <<queue, submitted, envVars, removed, metricVars, eventVars,
                   delivered, emitter,
                   requestVars, pruneVars>>

(***************************************************************************)
(* processWorkUnit                                                         *)
(***************************************************************************)
\* wu.processingLock.Lock()
Lock(w) ==
    /\ workers[w].pc = "lock"
    /\ UnitOf(w).processingLock = Nil
    /\ workUnits' = [workUnits EXCEPT ![workers[w].data].processingLock = w]
    /\ Goto(w, "caseHashing")
    /\ UNCHANGED <<queue, submitted, envVars, removed, metricVars, eventVars,
                   delivered, emitter,
                   requestVars, pruneVars>>

\* wu.processingLock.Unlock()
Unlock(wu) == [wu EXCEPT !.processingLock = Nil]

\* The Hashing case left out of the switch.
CaseHashingMissing(w) ==
    /\ workers[w].pc = "caseHashing"
    /\ Goto(w, "caseInvalid")
    /\ UNCHANGED <<queue, submitted, workUnits, envVars, removed, metricVars, eventVars,
                   delivered, emitter,
                   requestVars, pruneVars>>

\* case wu.Is(Hashing): unlock and return
CaseHashing(w) ==
    /\ workers[w].pc = "caseHashing"
    /\ IF Is(UnitOf(w), Hashing)
       THEN /\ workUnits' = [workUnits EXCEPT ![workers[w].data] = Unlock(@)]
            /\ Goto(w, "release")
       ELSE /\ Goto(w, "caseInvalid")
            /\ UNCHANGED workUnits
    /\ UNCHANGED <<queue, submitted, envVars, removed, metricVars, eventVars,
                   delivered, emitter,
                   requestVars, pruneVars>>

\* The Invalid case returns without unlocking.
CaseInvalidNoUnlock(w) ==
    /\ workers[w].pc = "caseInvalid"
    /\ Goto(w, IF Is(UnitOf(w), Invalid) THEN "invalidPeer" ELSE "caseHashed")
    /\ UNCHANGED <<queue, submitted, workUnits, envVars, removed, metricVars, eventVars,
                   delivered, emitter,
                   requestVars, pruneVars>>

\* case wu.Is(Invalid): unlock
CaseInvalid(w) ==
    /\ workers[w].pc = "caseInvalid"
    /\ IF Is(UnitOf(w), Invalid)
       THEN /\ workUnits' = [workUnits EXCEPT ![workers[w].data] = Unlock(@)]
            /\ Goto(w, "invalidPeer")
       ELSE /\ Goto(w, "caseHashed")
            /\ UNCHANGED workUnits
    /\ UNCHANGED <<queue, submitted, envVars, removed, metricVars, eventVars,
                   delivered, emitter,
                   requestVars, pruneVars>>

\* ... InvalidTransactions.Inc(); proc.pm.Remove(p.ID); return
InvalidPeer(w) ==
    /\ workers[w].pc = "invalidPeer"
    /\ InvalidTransactions' = InvalidTransactions + 1
    /\ removed' = removed \cup {workers[w].peer}
    /\ Goto(w, "release")
    /\ UNCHANGED <<queue, submitted, workUnits, envVars, KnownTransactions, peerKnown,
                   eventVars, delivered, emitter,
                   requestVars, pruneVars>>

\* The Hashed case left out of the switch.
CaseHashedMissing(w) ==
    /\ workers[w].pc = "caseHashed"
    /\ Goto(w, "updateHashing")
    /\ UNCHANGED <<queue, submitted, workUnits, envVars, removed, metricVars, eventVars,
                   delivered, emitter,
                   requestVars, pruneVars>>

\* case wu.Is(Hashed): unlock
CaseHashed(w) ==
    /\ workers[w].pc = "caseHashed"
    /\ IF Is(UnitOf(w), Hashed)
       THEN /\ workUnits' = [workUnits EXCEPT ![workers[w].data] = Unlock(@)]
            /\ Goto(w, "hashedReceived")
       ELSE /\ Goto(w, "updateHashing")
            /\ UNCHANGED workUnits
    /\ UNCHANGED <<queue, submitted, envVars, removed, metricVars, eventVars,
                   delivered, emitter,
                   requestVars, pruneVars>>

\* The event is fired whether or not a request was outstanding.
HashedReceivedAlwaysFires(w) ==
    /\ workers[w].pc = "hashedReceived"
    /\ LET id == UnitOf(w).msg
           request == Received(id)
       IN /\ pending' = [pending EXCEPT ![id] = Nil]
          /\ workers' = [workers EXCEPT ![w].request = request, ![w].pc = "hashedTrigger"]
    /\ UNCHANGED <<queue, submitted, workUnits, nextRequest, tangle, removed,
                   metricVars, eventVars, delivered, emitter,
                   requestVars, pruneVars>>

\* ... if request := proc.requestQueue.Received(wu.msg.GetMessageID()); request != nil
HashedReceived(w) ==
    /\ workers[w].pc = "hashedReceived"
    /\ LET id == UnitOf(w).msg
           request == Received(id)
       IN /\ pending' = [pending EXCEPT ![id] = Nil]
          /\ workers' = [workers EXCEPT
                 ![w].request = request,
                 ![w].pc = IF request # Nil THEN "hashedTrigger" ELSE "hashedContains"]
    /\ UNCHANGED <<queue, submitted, workUnits, nextRequest, tangle, removed,
                   metricVars, eventVars, delivered, emitter,
                   requestVars, pruneVars>>

\* The MessageProcessed event with its three parameters.
MessageProcessed(msg, request, p) ==
    [event |-> "MessageProcessed", msg |-> msg, request |-> request, peer |-> p]

\* ... proc.Events.MessageProcessed.Trigger(wu.msg, request, p); return
HashedTrigger(w) ==
    /\ workers[w].pc = "hashedTrigger"
    /\ workers' = [workers EXCEPT
           ![w].events = Append(@, MessageProcessed(UnitOf(w).msg, workers[w].request,
                                                    workers[w].peer)),
           ![w].pc = "release"]
    /\ mpCount' = [mpCount EXCEPT ![workers[w].data][workers[w].peer] = @ + 1]
    /\ UNCHANGED <<queue, submitted, workUnits, envVars, removed, metricVars, bcCount,
                   delivered, emitter,
                   requestVars, pruneVars>>

\* ... if tangle.ContainsMessage(...) { KnownTransactions.Inc(); p.Metrics.KnownTransactions.Inc() }
HashedContains(w) ==
    /\ workers[w].pc = "hashedContains"
    /\ IF ContainsMessage(UnitOf(w).msg)
       THEN /\ KnownTransactions' = KnownTransactions + 1
            /\ peerKnown' = [peerKnown EXCEPT ![workers[w].peer] = @ + 1]
       ELSE UNCHANGED <<KnownTransactions, peerKnown,
                   requestVars, pruneVars>>
    /\ Goto(w, "release")
    /\ UNCHANGED <<queue, submitted, workUnits, envVars, removed, InvalidTransactions,
                   eventVars, delivered, emitter,
                   requestVars, pruneVars>>

\* wu.UpdateState(Hashing); wu.processingLock.Unlock()
UpdateHashing(w) ==
    /\ workers[w].pc = "updateHashing"
    /\ workUnits' = [workUnits EXCEPT ![workers[w].data] = Unlock(UpdateState(@, Hashing))]
    /\ workers' = [workers EXCEPT ![w].hasher = TRUE, ![w].pc = "parse"]
    /\ UNCHANGED <<queue, submitted, envVars, removed, metricVars, eventVars,
                   delivered, emitter,
                   requestVars, pruneVars>>

\* The parse error is dropped: the worker returns without marking the unit.
ParseErrorDropped(w) ==
    /\ workers[w].pc = "parse"
    /\ LET msg == MessageFromBytes(UnitOf(w).receivedMsgBytes)
       IN workers' = [workers EXCEPT
              ![w].msg = msg,
              ![w].pc = IF msg = Nil THEN "release" ELSE "received"]
    /\ workUnits' = [workUnits EXCEPT ![workers[w].data].parses = @ + 1]
    /\ UNCHANGED <<queue, submitted, envVars, removed, metricVars, eventVars,
                   delivered, emitter,
                   requestVars, pruneVars>>

\* msg, err := tangle.MessageFromBytes(wu.receivedMsgBytes, ...)
Parse(w) ==
    /\ workers[w].pc = "parse"
    /\ LET msg == MessageFromBytes(UnitOf(w).receivedMsgBytes)
       IN workers' = [workers EXCEPT
              ![w].msg = msg,
              ![w].pc = IF msg = Nil THEN "updateInvalid" ELSE "received"]
    /\ workUnits' = [workUnits EXCEPT ![workers[w].data].parses = @ + 1]
    /\ UNCHANGED <<queue, submitted, envVars, removed, metricVars, eventVars,
                   delivered, emitter,
                   requestVars, pruneVars>>

\* The unit is marked Invalid but its senders are not punished.
UpdateInvalidNoPunish(w) ==
    /\ workers[w].pc = "updateInvalid"
    /\ workUnits' = [workUnits EXCEPT ![workers[w].data] = UpdateState(@, Invalid)]
    /\ Goto(w, "release")
    /\ UNCHANGED <<queue, submitted, envVars, removed, metricVars, eventVars,
                   delivered, emitter,
                   requestVars, pruneVars>>

\* wu.UpdateState(Invalid)
UpdateInvalid(w) ==
    /\ workers[w].pc = "updateInvalid"
    /\ workUnits' = [workUnits EXCEPT ![workers[w].data] = UpdateState(@, Invalid)]
    /\ Goto(w, "punish")
    /\ UNCHANGED <<queue, submitted, envVars, removed, metricVars, eventVars,
                   delivered, emitter,
                   requestVars, pruneVars>>

\* wu.punish(); return
Punish(w) ==
    /\ workers[w].pc = "punish"
    /\ UnitOf(w).dataLock = Nil
    /\ removed' = removed \cup punish(UnitOf(w)).remove
    /\ InvalidTransactions' = InvalidTransactions + punish(UnitOf(w)).invalid
    /\ Goto(w, "release")
    /\ UNCHANGED <<queue, submitted, workUnits, envVars, KnownTransactions, peerKnown,
                   eventVars, delivered, emitter,
                   requestVars, pruneVars>>

\* request := proc.requestQueue.Received(msg.GetMessageID())
MarkReceived(w) ==
    /\ workers[w].pc = "received"
    /\ LET id == workers[w].msg
       IN /\ pending' = [pending EXCEPT ![id] = Nil]
          /\ workers' = [workers EXCEPT ![w].request = Received(id), ![w].pc = "dataLock"]
    /\ UNCHANGED <<queue, submitted, workUnits, nextRequest, tangle, removed,
                   metricVars, eventVars, delivered, emitter,
                   requestVars, pruneVars>>

\* wu.dataLock.Lock()
DataLock(w) ==
    /\ workers[w].pc = "dataLock"
    /\ UnitOf(w).dataLock = Nil
    /\ workUnits' = [workUnits EXCEPT ![workers[w].data].dataLock = w]
    /\ Goto(w, "storeMsg")
    /\ UNCHANGED <<queue, submitted, envVars, removed, metricVars, eventVars,
                   delivered, emitter,
                   requestVars, pruneVars>>

\* The parsed message is not stored in the unit.
StoreMsgMissing(w) ==
    /\ workers[w].pc = "storeMsg"
    /\ workUnits' = [workUnits EXCEPT ![workers[w].data].dataLock = Nil]
    /\ Goto(w, IF UnitOf(w).receivedTxHash \in invalidMilestoneHashes
               THEN "updateInvalid" ELSE "updateHashed")
    /\ UNCHANGED <<queue, submitted, envVars, removed, metricVars, eventVars,
                   delivered, emitter,
                   requestVars, pruneVars>>

\* wu.receivedMsgID = msg.GetMessageID(); wu.msg = msg; wu.dataLock.Unlock();
\* then the look-up of wu.receivedTxHash in invalidMilestoneHashes.  The
\* key is a field of the unit that no line of the processor writes: the
\* unit carries it from its construction.
StoreMsg(w) ==
    /\ workers[w].pc = "storeMsg"
    /\ workUnits' = [workUnits EXCEPT ![workers[w].data].msg = workers[w].msg,
                                      ![workers[w].data].dataLock = Nil]
    /\ Goto(w, IF UnitOf(w).receivedTxHash \in invalidMilestoneHashes
               THEN "updateInvalid" ELSE "updateHashed")
    /\ UNCHANGED <<queue, submitted, envVars, removed, metricVars, eventVars,
                   delivered, emitter,
                   requestVars, pruneVars>>

\* The state is not updated: the unit stays in Hashing.
UpdateHashedMissing(w) ==
    /\ workers[w].pc = "updateHashed"
    /\ Goto(w, "contains")
    /\ UNCHANGED <<queue, submitted, workUnits, envVars, removed, metricVars, eventVars,
                   delivered, emitter,
                   requestVars, pruneVars>>

\* wu.UpdateState(Hashed)
UpdateHashed(w) ==
    /\ workers[w].pc = "updateHashed"
    /\ workUnits' = [workUnits EXCEPT ![workers[w].data] = UpdateState(@, Hashed)]
    /\ Goto(w, "contains")
    /\ UNCHANGED <<queue, submitted, envVars, removed, metricVars, eventVars,
                   delivered, emitter,
                   requestVars, pruneVars>>

\* The broadcast is decided and fired before MessageProcessed.
ContainsBroadcastFirst(w) ==
    /\ workers[w].pc = "contains"
    /\ workers' = [workers EXCEPT ![w].containsTx = ContainsMessage(workers[w].msg),
                                  ![w].pc = "triggerBroadcast"]
    /\ UNCHANGED <<queue, submitted, workUnits, envVars, removed, metricVars, eventVars,
                   delivered, emitter,
                   requestVars, pruneVars>>

\* containsTx := tangle.ContainsMessage(msg.GetMessageID())
Contains(w) ==
    /\ workers[w].pc = "contains"
    /\ workers' = [workers EXCEPT ![w].containsTx = ContainsMessage(workers[w].msg),
                                  ![w].pc = "triggerProcessed"]
    /\ UNCHANGED <<queue, submitted, workUnits, envVars, removed, metricVars, eventVars,
                   delivered, emitter,
                   requestVars, pruneVars>>

\* The event is not fired on the first-hash path.
TriggerProcessedMissing(w) ==
    /\ workers[w].pc = "triggerProcessed"
    /\ Goto(w, "increaseKnown")
    /\ UNCHANGED <<queue, submitted, workUnits, envVars, removed, metricVars, eventVars,
                   delivered, emitter,
                   requestVars, pruneVars>>

\* proc.Events.MessageProcessed.Trigger(msg, request, p)
TriggerProcessed(w) ==
    /\ workers[w].pc = "triggerProcessed"
    /\ workers' = [workers EXCEPT
           ![w].events = Append(@, MessageProcessed(workers[w].msg, workers[w].request,
                                                    workers[w].peer)),
           ![w].pc = "increaseKnown"]
    /\ mpCount' = [mpCount EXCEPT ![workers[w].data][workers[w].peer] = @ + 1]
    /\ UNCHANGED <<queue, submitted, workUnits, envVars, removed, metricVars, bcCount,
                   delivered, emitter,
                   requestVars, pruneVars>>

\* The broadcast condition tests only containsTx.
IncreaseKnownIgnoringRequest(w) ==
    /\ workers[w].pc = "increaseKnown"
    /\ UnitOf(w).dataLock = Nil
    /\ peerKnown' = [p \in Peers |->
           IF p \in increaseKnownTxCount(UnitOf(w), workers[w].peer)
           THEN peerKnown[p] + 1 ELSE peerKnown[p]]
    /\ Goto(w, IF ~workers[w].containsTx THEN "triggerBroadcast" ELSE "release")
    /\ UNCHANGED <<queue, submitted, workUnits, envVars, removed, InvalidTransactions,
                   KnownTransactions, eventVars, delivered, emitter,
                   requestVars, pruneVars>>

\* wu.increaseKnownTxCount(p), then: if request == nil && !containsTx
IncreaseKnown(w) ==
    /\ workers[w].pc = "increaseKnown"
    /\ UnitOf(w).dataLock = Nil
    /\ peerKnown' = [p \in Peers |->
           IF p \in increaseKnownTxCount(UnitOf(w), workers[w].peer)
           THEN peerKnown[p] + 1 ELSE peerKnown[p]]
    /\ Goto(w, IF workers[w].request = Nil /\ ~workers[w].containsTx
               THEN "triggerBroadcast" ELSE "release")
    /\ UNCHANGED <<queue, submitted, workUnits, envVars, removed, InvalidTransactions,
                   KnownTransactions, eventVars, delivered, emitter,
                   requestVars, pruneVars>>

\* The BroadcastMessage event with its parameter.
BroadcastMessage(b) == [event |-> "BroadcastMessage", broadcast |-> b]

\* proc.Events.BroadcastMessage.Trigger(wu.broadcast())
TriggerBroadcast(w) ==
    /\ workers[w].pc = "triggerBroadcast"
    /\ UnitOf(w).dataLock = Nil
    /\ workers' = [workers EXCEPT
           ![w].events = Append(@, BroadcastMessage(broadcast(UnitOf(w)))),
           ![w].pc = "release"]
    /\ bcCount' = [bcCount EXCEPT ![workers[w].data] = @ + 1]
    /\ workUnits' = [workUnits EXCEPT ![workers[w].data].broadcasts = @ + 1]
    /\ UNCHANGED <<queue, submitted, envVars, removed, metricVars, mpCount,
                   delivered, emitter,
                   requestVars, pruneVars>>

(***************************************************************************)
(* SerializeAndEmit, called by the node for a message of its own.          *)
(***************************************************************************)
\* The serialization error is not checked.
SerializeErrorIgnored(ok) ==
    /\ emitter.pc = "idle"
    /\ emitter.calls < MaxEmits
    /\ emitter' = [pc |-> "emitProcessed", calls |-> emitter.calls + 1, ok |-> ok,
                   events |-> <<>>, err |-> ~ok]
    /\ UNCHANGED <<queue, submitted, workers, workUnits, envVars, removed, metricVars,
                   eventVars, delivered,
                   requestVars, pruneVars>>

\* msgData, err := msg.GetMessage().Serialize(deSeriMode); if err != nil return err
Serialize(ok) ==
    /\ emitter.pc = "idle"
    /\ emitter.calls < MaxEmits
    /\ emitter' = [pc |-> IF ok THEN "emitProcessed" ELSE "idle",
                   calls |-> emitter.calls + 1, ok |-> ok, events |-> <<>>,
                   err |-> ~ok]
    /\ UNCHANGED <<queue, submitted, workers, workUnits, envVars, removed, metricVars,
                   eventVars, delivered,
                   requestVars, pruneVars>>

\* proc.Events.MessageProcessed.Trigger(msg, nil, nil)
EmitProcessed ==
    /\ emitter.pc = "emitProcessed"
    /\ emitter' = [emitter EXCEPT !.events = Append(@, MessageProcessed("local", Nil, Nil)),
                                  !.pc = "emitBroadcast"]
    /\ UNCHANGED <<queue, submitted, workers, workUnits, envVars, removed, metricVars,
                   eventVars, delivered,
                   requestVars, pruneVars>>

\* proc.Events.BroadcastMessage.Trigger(&bqueue.Broadcast{MsgData: msgData}); return nil
EmitBroadcast ==
    /\ emitter.pc = "emitBroadcast"
    /\ emitter' = [emitter EXCEPT
           !.events = Append(@, BroadcastMessage([MsgData |-> "local", ExcludePeers |-> {}])),
           !.pc = "idle"]
    /\ UNCHANGED <<queue, submitted, workers, workUnits, envVars, removed, metricVars,
                   eventVars, delivered,
                   requestVars, pruneVars>>

(***************************************************************************)
(* processMessageRequest                                                   *)
(***************************************************************************)
\* The transaction variables a request task never writes.
transactionVars == <<workUnits, envVars, metricVars, eventVars, delivered, emitter>>

MessageRequest(w) ==
    /\ workers[w].pc = "messageRequest"
    /\ LET data == workers[w].data IN
       IF data.len # RequestLength
       THEN /\ workers' = [workers EXCEPT ![w] = IdleWorker]
            /\ UNCHANGED msgRetain
       ELSE IF data.hash \notin tangle
       THEN /\ workers' = [workers EXCEPT ![w] = IdleWorker]
            /\ UNCHANGED msgRetain
       ELSE /\ workers' = [workers EXCEPT ![w].pc = "enqueueMessage",
                                          ![w].cachedMsg = data.hash,
                                          ![w].lookups = @ + 1]
            /\ msgRetain' = [msgRetain EXCEPT ![data.hash] = @ + 1]
    /\ UNCHANGED <<queue, submitted, transactionVars, removed, sendQueue,
                   InvalidRequests, pruneVars>>

\* The reply goes to every peer instead of the requesting one.
EnqueueMessageToAll(w) ==
    /\ workers[w].pc = "enqueueMessage"
    /\ sendQueue' = [p \in Peers |->
           Append(sendQueue[p], NewTransactionMessage(RawBytes(workers[w].cachedMsg)))]
    /\ workers' = [workers EXCEPT ![w].pc = "releaseMessage", ![w].sent = @ + 1]
    /\ UNCHANGED <<queue, submitted, transactionVars, removed, InvalidRequests,
                   msgRetain, pruneVars>>

\* p.EnqueueForSending(transactionMsg) with the cached message's raw bytes.
EnqueueMessage(w) ==
    /\ workers[w].pc = "enqueueMessage"
    /\ sendQueue' = [sendQueue EXCEPT ![workers[w].peer] =
           Append(@, NewTransactionMessage(RawBytes(workers[w].cachedMsg)))]
    /\ workers' = [workers EXCEPT ![w].pc = "releaseMessage", ![w].sent = @ + 1]
    /\ UNCHANGED <<queue, submitted, transactionVars, removed, InvalidRequests,
                   msgRetain, pruneVars>>

\* The deferred cachedMsg.Release() runs as the function returns.
ReleaseMessage(w) ==
    /\ workers[w].pc = "releaseMessage"
    /\ msgRetain' = [msgRetain EXCEPT ![workers[w].cachedMsg] = @ - 1]
    /\ workers' = [workers EXCEPT ![w] = IdleWorker]
    /\ UNCHANGED <<queue, submitted, transactionVars, removed, sendQueue,
                   InvalidRequests, pruneVars>>

\* processMessageRequest(p, data): one step of the task run by worker w.
processMessageRequest(w) ==
    \/ MessageRequest(w)
    \/ EnqueueMessage(w)
    \/ ReleaseMessage(w)

(***************************************************************************)
(* processMilestoneRequest                                                 *)
(***************************************************************************)
\* The failed extraction goes uncounted.
MilestoneRequestUncounted(w) ==
    /\ workers[w].pc = "milestoneRequest"
    /\ IF ExtractRequestedMilestoneIndex(workers[w].data).err
       THEN Goto(w, "removePeer")
       ELSE Goto(w, "resolveIndex")
    /\ UNCHANGED InvalidRequests
    /\ UNCHANGED <<queue, submitted, transactionVars, removed, sendQueue, msgRetain,
                   pruneVars>>

\* ExtractRequestedMilestoneIndex; an error counts an invalid request.
MilestoneRequest(w) ==
    /\ workers[w].pc = "milestoneRequest"
    /\ IF ExtractRequestedMilestoneIndex(workers[w].data).err
       THEN /\ InvalidRequests' = InvalidRequests + 1
            /\ Goto(w, "removePeer")
       ELSE /\ UNCHANGED InvalidRequests
            /\ Goto(w, "resolveIndex")
    /\ UNCHANGED <<queue, submitted, transactionVars, removed, sendQueue, msgRetain,
                   pruneVars>>

\* proc.pm.Remove(p.ID), then return.
RemovePeer(w) ==
    /\ workers[w].pc = "removePeer"
    /\ removed' = removed \cup {workers[w].peer}
    /\ workers' = [workers EXCEPT ![w] = IdleWorker]
    /\ UNCHANGED <<queue, submitted, transactionVars, requestVars, pruneVars>>

\* tangle.GetLatestMilestoneIndex
GetLatestMilestoneIndex ==
    IF milestones = {} THEN 0
    ELSE CHOOSE i \in milestones : \A j \in milestones : j <= i

\* A request for LatestMilestoneRequestIndex is resolved by
\* tangle.GetLatestMilestoneIndex.
ResolveIndex(w) ==
    /\ workers[w].pc = "resolveIndex"
    /\ LET requested == ExtractRequestedMilestoneIndex(workers[w].data).msIndex IN
       IF requested = LatestMilestoneRequestIndex
       THEN workers' = [workers EXCEPT ![w].pc = "getMilestone",
                                       ![w].msIndex = GetLatestMilestoneIndex,
                                       ![w].lookups = @ + 1]
       ELSE workers' = [workers EXCEPT ![w].pc = "getMilestone",
                                       ![w].msIndex = requested]
    /\ UNCHANGED <<queue, submitted, transactionVars, removed, requestVars, pruneVars>>

\* tangle.GetMilestoneOrNil(msIndex): a milestone the tangle lacks returns;
\* otherwise the worker holds a handle on the milestone.
GetMilestone(w) ==
    /\ workers[w].pc = "getMilestone"
    /\ IF workers[w].msIndex \notin milestones
       THEN workers' = [workers EXCEPT ![w] = IdleWorker]
       ELSE workers' = [workers EXCEPT ![w].pc = "getTransactions",
                                       ![w].cachedReqMs = workers[w].msIndex,
                                       ![w].lookups = @ + 1]
    /\ UNCHANGED <<queue, submitted, transactionVars, removed, requestVars, pruneVars>>

\* cachedReqMs.GetMessage().GetTransactions(): the worker holds a handle on
\* each message of the milestone.
GetMilestoneTransactions(w) ==
    /\ workers[w].pc = "getTransactions"
    /\ LET cachedMsgs == GetTransactions(workers[w].cachedReqMs) IN
       /\ workers' = [workers EXCEPT ![w].pc = "enqueueMilestone",
                                     ![w].cachedMsgs = cachedMsgs,
                                     ![w].toSend = cachedMsgs,
                                     ![w].lookups = @ + 1]
       /\ msgRetain' = [m \in MsgIDs |-> msgRetain[m] +
              Cardinality({i \in 1..Len(cachedMsgs) : cachedMsgs[i] = m})]
    /\ UNCHANGED <<queue, submitted, transactionVars, removed, sendQueue,
                   InvalidRequests, pruneVars>>

\* One round of the loop over cachedMsgs: p.EnqueueForSending(transactionMsg).
EnqueueMilestone(w) ==
    /\ workers[w].pc = "enqueueMilestone"
    /\ IF workers[w].toSend = <<>>
       THEN /\ Goto(w, "releaseMilestone")
            /\ UNCHANGED sendQueue
       ELSE /\ sendQueue' = [sendQueue EXCEPT ![workers[w].peer] =
                   Append(@, NewTransactionMessage(RawBytes(Head(workers[w].toSend))))]
            /\ workers' = [workers EXCEPT ![w].toSend = Tail(@), ![w].sent = @ + 1]
    /\ UNCHANGED <<queue, submitted, transactionVars, removed, InvalidRequests,
                   msgRetain, pruneVars>>

\* cachedMsgs.Release(true); cachedReqMs.Release(true)
ReleaseMilestone(w) ==
    /\ workers[w].pc = "releaseMilestone"
    /\ LET cachedMsgs == workers[w].cachedMsgs IN
       msgRetain' = [m \in MsgIDs |-> msgRetain[m] -
           Cardinality({i \in 1..Len(cachedMsgs) : cachedMsgs[i] = m})]
    /\ workers' = [workers EXCEPT ![w] = IdleWorker]
    /\ UNCHANGED <<queue, submitted, transactionVars, removed, sendQueue,
                   InvalidRequests, pruneVars>>

\* processMilestoneRequest(p, data): one step of the task run by worker w.
processMilestoneRequest(w) ==
    \/ MilestoneRequest(w)
    \/ RemovePeer(w)
    \/ ResolveIndex(w)
    \/ GetMilestone(w)
    \/ GetMilestoneTransactions(w)
    \/ EnqueueMilestone(w)
    \/ ReleaseMilestone(w)

(***************************************************************************)
(* pruneDatabase (plugins/snapshot/pruning.go)                             *)
(***************************************************************************)
\* The processor's state, which pruning never writes.
processorVars == <<queue, submitted, workers, removed, transactionVars, requestVars>>

\* Milestone indexes are drawn so that no subtraction below goes under zero.
AdditionalPruningThreshold == 50
SolidEntryPointCheckThresholdPast == 50
pruningDelay == 2

\* snapshotInfo.SnapshotIndex: the latest milestone that may be pruned is
\* MaxMilestone.
SnapshotIndex ==
    MaxMilestone + SolidEntryPointCheckThresholdPast + AdditionalPruningThreshold + 1

SolidMilestoneIndexes == pruningDelay..(pruningDelay + MaxMilestone + 1)

\* Lines 124-128.
TargetIndex(solidMilestoneIndex) ==
    LET targetIndex == solidMilestoneIndex - pruningDelay
        targetIndexMax == SnapshotIndex - SolidEntryPointCheckThresholdPast
                              - AdditionalPruningThreshold - 1
    IN IF targetIndex > targetIndexMax THEN targetIndexMax ELSE targetIndex

\* What a step of pruneDatabase leaves alone besides the tangle's messages.
notPrunedVars ==
    <<queue, submitted, workers, removed, workUnits, pending, nextRequest, metricVars,
      eventVars, delivered, emitter, requestVars>>

\* log.Panicf: the call ends here.
Panic(message) == [pruner EXCEPT !.pc = "panicked", !.panic = message]

MilestoneNotFound == "Milestone not found"
TransactionNotFound == "pruneTransactions: Transaction not found"
FirstSeenError == "pruneUnconfirmedTransactions"

\* Entry of pruneDatabase up to the loop's initialisation.
PruneStart(solidMilestoneIndex) ==
    /\ pruner.pc = "idle"
    /\ LET targetIndex == TargetIndex(solidMilestoneIndex) IN
       IF PruningIndex >= targetIndex
       THEN UNCHANGED pruner
       ELSE pruner' = [IdlePruner EXCEPT !.pc = "select", !.targetIndex = targetIndex,
                                         !.milestoneIndex = PruningIndex + 1]
    /\ UNCHANGED <<processorVars, milestones, unconfirmedPruned, PruningIndex>>

\* The loop condition and the select on abortSignal.
PruneSelect(abort) ==
    /\ pruner.pc = "select"
    /\ IF pruner.milestoneIndex > pruner.targetIndex
       THEN pruner' = [pruner EXCEPT !.pc = "setSnapshotInfo"]
       ELSE IF abort
       THEN pruner' = IdlePruner
       ELSE pruner' = [pruner EXCEPT !.pc = "readFirstSeen"]
    /\ UNCHANGED <<processorVars, milestones, unconfirmedPruned, PruningIndex>>

\* tangle.ReadFirstSeenTxHashOperations(targetIndex): the hashes first seen
\* at the milestone, none once they were deleted; an error panics.
ReadFirstSeenTxHashOperations(txHashes, err) ==
    /\ pruner.pc = "readFirstSeen"
    /\ pruner.milestoneIndex \in unconfirmedPruned => txHashes = {}
    /\ IF err
       THEN pruner' = Panic(FirstSeenError)
       ELSE pruner' = [pruner EXCEPT !.pc = "filterUnconfirmed", !.txHashes = txHashes]
    /\ UNCHANGED <<processorVars, milestones, unconfirmedPruned, PruningIndex>>

\* The loop of lines 30-52 keeps the hashes of stored transactions that are
\* not confirmed; pruneTransactions is called with them.
FilterUnconfirmed(confirmed) ==
    /\ pruner.pc = "filterUnconfirmed"
    /\ pruner' = [pruner EXCEPT
           !.txHashes = {txHash \in @ : txHash \in tangle /\ txHash \notin confirmed},
           !.caller = "pruneUnconfirmedTransactions",
           !.pc = "pruneTransactions"]
    /\ UNCHANGED <<processorVars, milestones, unconfirmedPruned, PruningIndex>>

\* One round of the first loop of pruneTransactions: a transaction that is
\* not stored panics; a stored one is taken out of its bundle, and every
\* hash tangle.RemoveTransactionFromBundle returns (txsRemoved: none, the
\* transaction alone, or more of its bundle) is marked for removal.
RemoveTransactionFromBundle(txHash, txsRemoved) ==
    /\ pruner.pc = "pruneTransactions"
    /\ txHash \in pruner.txHashes
    /\ IF txHash \notin tangle
       THEN pruner' = Panic(TransactionNotFound)
       ELSE pruner' = [pruner EXCEPT !.txHashes = @ \ {txHash},
                                     !.txsToRemove = @ \cup txsRemoved]
    /\ UNCHANGED <<processorVars, milestones, unconfirmedPruned, PruningIndex>>

\* The first loop is over.
TransactionsCollected ==
    /\ pruner.pc = "pruneTransactions"
    /\ pruner.txHashes = {}
    /\ pruner' = [pruner EXCEPT !.pc = "deleteTransactions"]
    /\ UNCHANGED <<processorVars, milestones, unconfirmedPruned, PruningIndex>>

\* One round of the second loop, in the map's order: a transaction that is
\* not stored panics, a stored one is deleted.
DeleteTransaction(txHash) ==
    /\ pruner.pc = "deleteTransactions"
    /\ txHash \in pruner.txsToRemove
    /\ IF txHash \notin tangle
       THEN /\ pruner' = Panic(TransactionNotFound)
            /\ UNCHANGED tangle
       ELSE /\ tangle' = tangle \ {txHash}
            /\ pruner' = [pruner EXCEPT !.txsToRemove = @ \ {txHash}]
    /\ UNCHANGED <<notPrunedVars, milestones, unconfirmedPruned, PruningIndex>>

\* pruneTransactions returns to the place it was called from.
TransactionsDeleted ==
    /\ pruner.pc = "deleteTransactions"
    /\ pruner.txsToRemove = {}
    /\ pruner' = [pruner EXCEPT
           !.pc = IF pruner.caller = "pruneUnconfirmedTransactions"
                  THEN "deleteFirstSeen" ELSE "pruneMilestone"]
    /\ UNCHANGED <<processorVars, milestones, unconfirmedPruned, PruningIndex>>

\* pruneTransactions(txHashes): one step of the call.
pruneTransactions ==
    \/ \E txHash \in MsgIDs, txsRemoved \in SUBSET MsgIDs :
           RemoveTransactionFromBundle(txHash, txsRemoved)
    \/ TransactionsCollected
    \/ \E txHash \in MsgIDs : DeleteTransaction(txHash)
    \/ TransactionsDeleted

\* tangle.DeleteFirstSeenTxHashOperations(targetIndex)
DeleteFirstSeenTxHashOperations ==
    /\ pruner.pc = "deleteFirstSeen"
    /\ unconfirmedPruned' = unconfirmedPruned \cup {pruner.milestoneIndex}
    /\ pruner' = [pruner EXCEPT !.pc = "getMilestoneOrNil"]
    /\ UNCHANGED <<processorVars, milestones, PruningIndex>>

\* pruneUnconfirmedTransactions(milestoneIndex): one step of the call.
pruneUnconfirmedTransactions ==
    \/ \E txHashes \in SUBSET MsgIDs, err \in BOOLEAN :
           ReadFirstSeenTxHashOperations(txHashes, err)
    \/ \E confirmed \in SUBSET MsgIDs : FilterUnconfirmed(confirmed)
    \/ pruner.caller = "pruneUnconfirmedTransactions" /\ pruneTransactions
    \/ DeleteFirstSeenTxHashOperations

\* tangle.GetMilestoneOrNil(milestoneIndex); nil panics.
PruneGetMilestone ==
    /\ pruner.pc = "getMilestoneOrNil"
    /\ IF pruner.milestoneIndex \in milestones
       THEN pruner' = [pruner EXCEPT !.pc = "getMilestoneApprovees"]
       ELSE pruner' = Panic(MilestoneNotFound)
    /\ UNCHANGED <<processorVars, milestones, unconfirmedPruned, PruningIndex>>

\* getMilestoneApprovees: an error continues with the next milestone;
\* otherwise pruneTransactions is called with the approvees.
getMilestoneApprovees(approvees, err) ==
    /\ pruner.pc = "getMilestoneApprovees"
    /\ IF err
       THEN pruner' = [pruner EXCEPT !.pc = "select", !.milestoneIndex = @ + 1]
       ELSE pruner' = [pruner EXCEPT !.pc = "pruneTransactions",
                                     !.txHashes = approvees,
                                     !.caller = "pruneDatabase"]
    /\ UNCHANGED <<processorVars, milestones, unconfirmedPruned, PruningIndex>>

\* pruneMilestone(milestoneIndex): tangle.DeleteMilestone; next round.
pruneMilestone ==
    /\ pruner.pc = "pruneMilestone"
    /\ milestones' = milestones \ {pruner.milestoneIndex}
    /\ pruner' = [pruner EXCEPT !.pc = "select", !.milestoneIndex = @ + 1]
    /\ UNCHANGED <<processorVars, unconfirmedPruned, PruningIndex>>

\* snapshotInfo.PruningIndex = targetIndex; tangle.SetSnapshotInfo
SetSnapshotInfo ==
    /\ pruner.pc = "setSnapshotInfo"
    /\ PruningIndex' = pruner.targetIndex
    /\ pruner' = IdlePruner
    /\ UNCHANGED <<processorVars, milestones, unconfirmedPruned>>

\* pruneDatabase(solidMilestoneIndex, abortSignal): one step of the call.
pruneDatabase ==
    \/ \E solidMilestoneIndex \in SolidMilestoneIndexes : PruneStart(solidMilestoneIndex)
    \/ \E abort \in BOOLEAN : PruneSelect(abort)
    \/ pruneUnconfirmedTransactions
    \/ PruneGetMilestone
    \/ \E approvees \in SUBSET MsgIDs, err \in BOOLEAN : getMilestoneApprovees(approvees, err)
    \/ pruner.caller = "pruneDatabase" /\ pruneTransactions
    \/ pruneMilestone
    \/ SetSnapshotInfo

(***************************************************************************)
(* The environment: the request queue, the tangle and the cache's eviction.*)
(***************************************************************************)
\* The node requests message id from its peers: rqueue.Enqueue.
Request(id) ==
    /\ nextRequest <= MaxRequests
    /\ pending[id] = Nil
    /\ pending' = [pending EXCEPT ![id] = nextRequest]
    /\ nextRequest' = nextRequest + 1
    /\ UNCHANGED <<queue, submitted, workers, workUnits, tangle, removed, metricVars,
                   eventVars, delivered, emitter,
                   requestVars, pruneVars>>

\* The tangle stores message id.
StoreMessage(id) ==
    /\ id \notin tangle
    /\ tangle' = tangle \cup {id}
    /\ UNCHANGED <<queue, submitted, workers, workUnits, pending, nextRequest, removed,
                   metricVars, eventVars, delivered, emitter,
                   requestVars, pruneVars>>

\* The cache evicts an entry nobody retains, once its cache time has elapsed.
Evict(x) ==
    /\ workUnits[x].cached
    /\ workUnits[x].retain = 0
    /\ workUnits' = [workUnits EXCEPT ![x] = NoWorkUnit(x)]
    /\ UNCHANGED <<queue, submitted, workers, envVars, removed, metricVars,
                   eventVars, delivered, emitter,
                   requestVars, pruneVars>>

\* The pruning plugin deletes milestone i while the pool runs: the write
\* of pruneMilestone, seen from the request handlers.
DeleteMilestone(i) ==
    /\ i \in milestones
    /\ milestones' = milestones \ {i}
    /\ UNCHANGED <<processorVars, unconfirmedPruned, PruningIndex, pruner>>

\* processWorkUnit(wu, p): one step of the call made by worker w.
processWorkUnit(w) ==
    \/ Lock(w)
    \/ CaseHashing(w)
    \/ CaseInvalid(w)
    \/ InvalidPeer(w)
    \/ CaseHashed(w)
    \/ HashedReceived(w)
    \/ HashedTrigger(w)
    \/ HashedContains(w)
    \/ UpdateHashing(w)
    \/ Parse(w)
    \/ UpdateInvalid(w)
    \/ Punish(w)
    \/ MarkReceived(w)
    \/ DataLock(w)
    \/ StoreMsg(w)
    \/ UpdateHashed(w)
    \/ Contains(w)
    \/ TriggerProcessed(w)
    \/ IncreaseKnown(w)
    \/ TriggerBroadcast(w)

\* processTransaction(p, data): one step of the task run by worker w.
processTransaction(w) ==
    \/ workUnitFor(w)
    \/ AddReceivedFrom(w)
    \/ processWorkUnit(w)
    \/ Release(w)

\* SerializeAndEmit(msg, deSeriMode): one step of the call.
SerializeAndEmit ==
    \/ \E ok \in BOOLEAN : Serialize(ok)
    \/ EmitProcessed
    \/ EmitBroadcast

Next ==
    \/ \E p \in Peers, data \in DataOf(MessageTypeTransaction) :
           Process(p, MessageTypeTransaction, data)
    \/ \E w \in Workers : TakeTask(w)
    \/ \E w \in Workers : processTransaction(w)
    \/ SerializeAndEmit
    \/ \E id \in MsgIDs : Request(id)
    \/ \E id \in MsgIDs : StoreMessage(id)
    \/ \E x \in Payloads : Evict(x)

Spec == Init /\ [][Next]_vars

\* The worker pool and its collaborators alone.  SerializeAndEmit runs on
\* its caller's thread and shares no state with the pool's tasks.
NextPool ==
    \/ \E p \in Peers, data \in DataOf(MessageTypeTransaction) :
           Process(p, MessageTypeTransaction, data)
    \/ \E w \in Workers : TakeTask(w)
    \/ \E w \in Workers : processTransaction(w)
    \/ \E id \in MsgIDs : Request(id)
    \/ \E id \in MsgIDs : StoreMessage(id)
    \/ \E x \in Payloads : Evict(x)

\* The pool serving all three message types.
NextRequests ==
    \/ \E p \in Peers, msgType \in {MessageTypeTransaction, MessageTypeTransactionRequest,
                                     MessageTypeMilestoneRequest} :
           \E data \in DataOf(msgType) : Process(p, msgType, data)
    \/ \E w \in Workers : TakeTask(w)
    \/ \E w \in Workers : processTransaction(w)
    \/ \E w \in Workers : processMessageRequest(w)
    \/ \E w \in Workers : processMilestoneRequest(w)
    \/ \E id \in MsgIDs : Request(id)
    \/ \E id \in MsgIDs : StoreMessage(id)
    \/ \E x \in Payloads : Evict(x)
    \/ \E i \in MilestoneIndexes : DeleteMilestone(i)

RequestSpec == Init /\ [][NextRequests]_vars

\* The pruning of the database, with the tangle storing messages meanwhile.
NextPrune ==
    \/ pruneDatabase
    \/ \E id \in MsgIDs : StoreMessage(id)

PruneSpec == Init /\ [][NextPrune]_vars

\* Workers are OS threads: a worker whose next step stays possible takes it.
FairSpec == Init /\ [][NextPool]_vars /\ \A w \in Workers : WF_vars(processTransaction(w))

(***************************************************************************)
(* Notions the properties share.                                           *)
(***************************************************************************)
\* Number of events named kind in a call's sequence of fired events.
Fired(events, kind) == Cardinality({i \in 1..Len(events) : events[i].event = kind})

\* The workers whose current task is about payload x.
WorkersOn(x) == {w \in Workers : workers[w].pc # "idle" /\ workers[w].data = x}

\* No task about payload x is queued or running.
Quiescent(x) ==
    /\ WorkersOn(x) = {}
    /\ \A i \in 1..Len(queue) : queue[i].data # x

\* Positions of the worker that won the transition to Hashing.
HashingPath == {"parse", "updateInvalid", "punish", "received", "dataLock", "storeMsg",
                "updateHashed", "contains", "triggerProcessed", "increaseKnown",
                "triggerBroadcast"}

\* Positions of a call that found the unit Hashed.
HashedPath == {"hashedReceived", "hashedTrigger", "hashedContains"}

\* Positions at which a worker holds the processing lock.
LockedPath == {"caseHashing", "caseInvalid", "caseHashed", "updateHashing"}

Terminal == {Hashed, Invalid}

(***************************************************************************)
(* C1. At-most-once hashing: while the entry of a payload stays cached,    *)
(* MessageFromBytes runs at most once on it, and exactly once by the time  *)
(* the unit is Hashed or Invalid; only one worker is ever on the hashing   *)
(* path of a unit, every other worker on it left processWorkUnit (or is    *)
(* about to) through the Hashing, Hashed or Invalid branch.                *)
(***************************************************************************)
C1_AtMostOnceHashing ==
    \A x \in Payloads :
        workUnits[x].cached =>
            /\ workUnits[x].parses <= 1
            /\ workUnits[x].state \in Terminal => workUnits[x].parses = 1
            /\ workUnits[x].state = Unhashed => workUnits[x].parses = 0
            /\ Cardinality({w \in WorkersOn(x) : workers[w].hasher}) <= 1
            /\ \A w \in WorkersOn(x) :
                   workers[w].pc \in HashingPath => workers[w].hasher

\* Two peers delivered the same payload at the same time: one worker parsed
\* it, the other came back through the Hashing branch without parsing.
C1_Witness ==
    \E x \in Payloads, w1, w2 \in Workers :
        /\ w1 # w2
        /\ workers[w1].data = x /\ workers[w2].data = x
        /\ workers[w1].peer # workers[w2].peer
        /\ workers[w1].hasher /\ workers[w1].pc = "received"
        /\ workers[w2].pc = "release" /\ ~workers[w2].hasher
        /\ workUnits[x].state = Hashing
        /\ workUnits[x].parses = 1

(***************************************************************************)
(* C2. State monotonicity: a cached WorkUnit's state only ever changes     *)
(* Unhashed -> Hashing, Hashing -> Hashed or Hashing -> Invalid; a Hashed  *)
(* or Invalid unit keeps its state.                                        *)
(***************************************************************************)
AllowedTransitions == {<<Unhashed, Hashing>>, <<Hashing, Hashed>>, <<Hashing, Invalid>>}

C2_StateMonotonicity ==
    [][\A x \in Payloads :
          (workUnits[x].cached /\ workUnits'[x].cached) =>
              \/ workUnits'[x].state = workUnits[x].state
              \/ <<workUnits[x].state, workUnits'[x].state>> \in AllowedTransitions]_vars

\* A worker has re-entered a unit that is already Hashed, after the worker
\* that hashed it has finished.
C2_Witness ==
    \E x \in Payloads, w \in Workers :
        /\ workUnits[x].cached /\ workUnits[x].state = Hashed
        /\ WorkersOn(x) = {w}
        /\ workers[w].pc = "hashedContains"

(***************************************************************************)
(* C3 as stated: once all deliveries of a well-formed payload are done,    *)
(* MessageProcessed has fired exactly once for every peer that delivered   *)
(* it.                                                                     *)
(***************************************************************************)
C3_OncePerPeer ==
    \A x \in WellFormed, p \in Peers :
        (delivered[x][p] > 0 /\ Quiescent(x)) => mpCount[x][p] = 1

(***************************************************************************)
(* C3 amended: for a well-formed payload, the call of the worker that      *)
(* hashes it fires MessageProcessed exactly once, with the parsed message  *)
(* and that worker's peer; the call of any other worker fires it at most   *)
(* once, namely exactly when it found the unit Hashed and the request      *)
(* queue returned an outstanding request, and fires nothing when it found  *)
(* the unit in Hashing.  A payload that does not parse or is blocklisted   *)
(* fires none.  No peer gets more events than it made deliveries.          *)
(***************************************************************************)
C3_ProcessedPerCall ==
    /\ \A w \in Workers :
           workers[w].pc = "release" =>
               LET wk == workers[w]
                   n == Fired(wk.events, "MessageProcessed")
               IN IF wk.data \in WellFormed
                  THEN /\ wk.hasher =>
                              /\ n = 1
                              /\ wk.events[1] = MessageProcessed(
                                     MessageFromBytes(wk.data), wk.request, wk.peer)
                       /\ ~wk.hasher => n = (IF wk.request # Nil THEN 1 ELSE 0)
                  ELSE n = 0
    /\ \A x \in Payloads, p \in Peers :
           /\ mpCount[x][p] <= delivered[x][p]
           /\ x \notin WellFormed => mpCount[x][p] = 0

\* Peers A and B delivered the same well-formed payload at the same time;
\* the hashing worker has fired MessageProcessed for its peer, the other
\* worker has returned through the Hashing branch and fired nothing.
C3_Witness ==
    \E x \in WellFormed, w1, w2 \in Workers :
        /\ workers[w1].data = x /\ workers[w2].data = x
        /\ workers[w1].peer # workers[w2].peer
        /\ workers[w1].pc = "release" /\ workers[w1].hasher
        /\ workers[w2].pc = "release" /\ ~workers[w2].hasher
        /\ mpCount[x][workers[w1].peer] = 1
        /\ mpCount[x][workers[w2].peer] = 0

(***************************************************************************)
(* C4 as stated: BroadcastMessage fires at most once per payload.          *)
(***************************************************************************)
C4_OncePerPayload == \A x \in Payloads : bcCount[x] <= 1

(***************************************************************************)
(* C4 amended: BroadcastMessage fires at most once per payload for as long *)
(* as the payload's WorkUnit stays in the cache, and it is fired only by   *)
(* the hashing worker, only if its request-queue lookup returned no        *)
(* request and the tangle did not contain the message when probed right    *)
(* after the transition to Hashed.                                         *)
(***************************************************************************)
C4_BroadcastOncePerUnit ==
    /\ \A x \in Payloads : workUnits[x].cached => workUnits[x].broadcasts <= 1
    /\ \A x \in Payloads : x \notin WellFormed => bcCount[x] = 0
    /\ \A w \in Workers :
           (workers[w].pc = "triggerBroadcast"
               \/ Fired(workers[w].events, "BroadcastMessage") > 0) =>
               /\ workers[w].hasher
               /\ workers[w].request = Nil
               /\ ~workers[w].containsTx
               /\ Fired(workers[w].events, "BroadcastMessage") <= 1

\* The hashing worker has broadcast a payload that two peers delivered.
C4_Witness ==
    \E x \in WellFormed, w \in Workers :
        /\ workers[w].data = x /\ workers[w].pc = "release"
        /\ Fired(workers[w].events, "BroadcastMessage") = 1
        /\ workUnits[x].broadcasts = 1
        /\ workUnits[x].receivedFrom = Peers

(***************************************************************************)
(* C5. Punishment completeness: once a WorkUnit is Invalid, every peer     *)
(* that was in received_from at the transition to Invalid is eventually    *)
(* removed from the peer manager, also a peer whose own call returned      *)
(* through the Hashing branch.                                             *)
(***************************************************************************)
C5_PunishmentCompleteness ==
    \A x \in Payloads, p \in Peers :
        (workUnits[x].cached /\ workUnits[x].state = Invalid
            /\ p \in workUnits[x].rfAtInvalid) ~> (p \in removed)

\* Two peers were recorded when the unit became Invalid; the one that did
\* not hash came back through the Hashing branch; both are now removed.
C5_Witness ==
    \E x \in Payloads, w1, w2 \in Workers :
        /\ workUnits[x].cached /\ workUnits[x].state = Invalid
        /\ workers[w1].data = x /\ workers[w1].hasher /\ workers[w1].pc = "release"
        /\ workers[w2].data = x /\ ~workers[w2].hasher /\ workers[w2].pc = "release"
        /\ workers[w2].events = <<>>
        /\ workUnits[x].rfAtInvalid = {workers[w1].peer, workers[w2].peer}
        /\ workers[w1].peer # workers[w2].peer
        /\ workUnits[x].rfAtInvalid \subseteq removed
        /\ InvalidTransactions = 2

(***************************************************************************)
(* C6 as stated: a delivery never makes the delivering peer's              *)
(* known_transactions counter go up more than once, so the counter of a    *)
(* peer never exceeds the number of payloads it delivered.                 *)
(***************************************************************************)
RECURSIVE DeliveriesOf(_, _)
DeliveriesOf(p, payloads) ==
    IF payloads = {} THEN 0
    ELSE LET x == CHOOSE y \in payloads : TRUE
         IN delivered[x][p] + DeliveriesOf(p, payloads \ {x})

Deliveries(p) == DeliveriesOf(p, Payloads)

C6_KnownCountedOnce == \A p \in Peers : peerKnown[p] <= Deliveries(p)

(***************************************************************************)
(* C7. Invalid payload outcome: when the only delivery of a payload that   *)
(* does not parse was made by peer A, and no other payload that ends       *)
(* Invalid was delivered, then once the task is done the unit (while       *)
(* cached) is Invalid, A is removed, InvalidTransactions is 1 and no       *)
(* event has fired for the payload.                                        *)
(***************************************************************************)
OnlyDelivery(x, a) ==
    /\ delivered[x][a] = 1
    /\ \A p \in Peers \ {a} : delivered[x][p] = 0
    /\ \A y \in Payloads \ (WellFormed \cup {x}), p \in Peers : delivered[y][p] = 0

C7_InvalidPayloadOutcome ==
    \A x \in Malformed, a \in Peers :
        (OnlyDelivery(x, a) /\ Quiescent(x)) =>
            /\ workUnits[x].cached => workUnits[x].state = Invalid
            /\ a \in removed
            /\ removed = {a}
            /\ InvalidTransactions = 1
            /\ \A p \in Peers : mpCount[x][p] = 0
            /\ bcCount[x] = 0

\* The task of the single delivery of a malformed payload has completed.
C7_Witness ==
    \E x \in Malformed, a \in Peers :
        /\ OnlyDelivery(x, a) /\ Quiescent(x)
        /\ workUnits[x].cached /\ workUnits[x].state = Invalid
        /\ workUnits[x].parses = 1
        /\ InvalidTransactions = 1

(***************************************************************************)
(* C8. Idempotent re-entry: a call that finds the unit Hashed leaves the   *)
(* unit's state and parse count alone, fires MessageProcessed if and only  *)
(* if the request queue holds an outstanding request for the message at    *)
(* the moment of its Received call, then with that request, the unit's     *)
(* message and the calling peer, and never fires BroadcastMessage.         *)
(***************************************************************************)
C8_IdempotentReentry ==
    [][\A w \in Workers :
          (workers[w].pc \in HashedPath /\ workers'[w] # workers[w]) =>
              LET wk == workers[w]
                  wu == workUnits[wk.data]
              IN /\ ~wk.hasher
                 /\ wu.state = Hashed /\ workUnits'[wk.data].state = Hashed
                 /\ workUnits'[wk.data].parses = wu.parses
                 /\ bcCount' = bcCount
                 /\ wk.pc = "hashedReceived" =>
                        /\ workers'[w].request = pending[wu.msg]
                        /\ workers'[w].events = <<>>
                        /\ workers'[w].pc =
                               (IF pending[wu.msg] # Nil THEN "hashedTrigger"
                                                        ELSE "hashedContains")
                        /\ mpCount' = mpCount
                 /\ wk.pc = "hashedTrigger" =>
                        /\ wk.request # Nil
                        /\ workers'[w].events =
                               <<MessageProcessed(wu.msg, wk.request, wk.peer)>>
                        /\ mpCount'[wk.data][wk.peer] = mpCount[wk.data][wk.peer] + 1
                        /\ workers'[w].pc = "release"
                 /\ wk.pc = "hashedContains" =>
                        /\ wk.request = Nil
                        /\ workers'[w].events = <<>>
                        /\ mpCount' = mpCount
                        /\ workers'[w].pc = "release"]_vars

\* A second call on a Hashed unit has fired MessageProcessed again, with a
\* request that was enqueued after the unit was hashed.
C8_Witness ==
    \E x \in WellFormed, w \in Workers :
        /\ workers[w].data = x /\ workers[w].pc = "release" /\ ~workers[w].hasher
        /\ workUnits[x].state = Hashed /\ workUnits[x].parses = 1
        /\ workers[w].request # Nil
        /\ workers[w].events =
               <<MessageProcessed(MessageFromBytes(x), workers[w].request, workers[w].peer)>>
        /\ mpCount[x][workers[w].peer] = 2

(***************************************************************************)
(* C9. Event ordering: in the events fired by one processWorkUnit call and *)
(* by one SerializeAndEmit call, a BroadcastMessage is never the first     *)
(* event; it directly follows the MessageProcessed of the same call.       *)
(***************************************************************************)
ProcessedBeforeBroadcast(events) ==
    \A i \in 1..Len(events) :
        events[i].event = "BroadcastMessage" =>
            /\ i = 2
            /\ events[1].event = "MessageProcessed"

C9_EventOrdering ==
    /\ \A w \in Workers : ProcessedBeforeBroadcast(workers[w].events)
    /\ ProcessedBeforeBroadcast(emitter.events)

\* A processWorkUnit call and a SerializeAndEmit call have both fired their
\* two events.
C9_Witness ==
    /\ \E w \in Workers :
           /\ Len(workers[w].events) = 2
           /\ workers[w].events[2].event = "BroadcastMessage"
    /\ Len(emitter.events) = 2
    /\ emitter.events[2].event = "BroadcastMessage"

(***************************************************************************)
(* C10. Lock discipline: a worker holds a unit's processing lock only      *)
(* inside the state switch of its own unit, so never while it fires an     *)
(* event or calls the request queue, the tangle, the peer manager or the   *)
(* cache; the data lock is held only around the store of the parsed        *)
(* message, by a worker that does not hold and does not ask for a          *)
(* processing lock.  Whoever waits for a lock waits for a holder that can  *)
(* step, and while a task is running some worker can step.                 *)
(***************************************************************************)
HoldsProcessingLock(w) == \E x \in Payloads : workUnits[x].processingLock = w
HoldsDataLock(w) == \E x \in Payloads : workUnits[x].dataLock = w

C10_LockDiscipline ==
    /\ \A w \in Workers :
           /\ HoldsProcessingLock(w) <=> workers[w].pc \in LockedPath
           /\ HoldsDataLock(w) <=> workers[w].pc = "storeMsg"
           /\ ~(HoldsDataLock(w) /\ (HoldsProcessingLock(w) \/ workers[w].pc = "lock"))
    /\ \A x \in Payloads :
           /\ workUnits[x].processingLock # Nil =>
                  /\ workers[workUnits[x].processingLock].data = x
                  /\ ENABLED processTransaction(workUnits[x].processingLock)
           /\ workUnits[x].dataLock # Nil =>
                  /\ workers[workUnits[x].dataLock].data = x
                  /\ ENABLED processTransaction(workUnits[x].dataLock)
    /\ (\E w \in Workers : workers[w].pc # "idle") =>
           \E w \in Workers : ENABLED processTransaction(w)

\* One worker waits for the processing lock of a unit while another worker
\* holds it inside the state switch.
C10_Witness ==
    \E x \in Payloads, w1, w2 \in Workers :
        /\ workers[w1].pc = "lock" /\ workers[w1].data = x
        /\ workUnits[x].processingLock = w2
        /\ w1 # w2

(***************************************************************************)
(* C13. Local injection: a SerializeAndEmit call whose serialization fails *)
(* returns the error and has fired no event; a call whose serialization    *)
(* succeeds returns no error and has fired exactly one MessageProcessed    *)
(* with the message, a nil request and a nil peer, followed by exactly one *)
(* BroadcastMessage carrying the serialized bytes.                         *)
(***************************************************************************)
C13_LocalInjection ==
    /\ emitter.pc = "emitProcessed" => emitter.ok /\ emitter.events = <<>>
    /\ emitter.pc = "emitBroadcast" =>
           emitter.ok /\ emitter.events = <<MessageProcessed("local", Nil, Nil)>>
    /\ (emitter.pc = "idle" /\ emitter.calls > 0) =>
           /\ emitter.err <=> ~emitter.ok
           /\ emitter.err => emitter.events = <<>>
           /\ ~emitter.err =>
                  emitter.events =
                      <<MessageProcessed("local", Nil, Nil),
                        BroadcastMessage([MsgData |-> "local", ExcludePeers |-> {}])>>

\* A call with a message that serializes has returned.
C13_Witness ==
    /\ emitter.pc = "idle" /\ emitter.calls = 1
    /\ ~emitter.err
    /\ Len(emitter.events) = 2

(***************************************************************************)
(* C15. Parsed-data visibility: a Hashed unit has its parsed message and   *)
(* message ID set (an Unhashed one has not), and a worker other than the   *)
(* hashing one is at a position that reads them only after it has seen the *)
(* unit Hashed, so never while the unit is Unhashed or Hashing.            *)
(***************************************************************************)
C15_ParsedDataVisibility ==
    /\ \A x \in Payloads :
           workUnits[x].cached =>
               /\ workUnits[x].state = Hashed =>
                      /\ workUnits[x].msg # Nil
                      /\ workUnits[x].msg = MessageFromBytes(x)
                      /\ workUnits[x].dataLock = Nil
               /\ workUnits[x].state = Unhashed => workUnits[x].msg = Nil
    /\ \A w \in Workers :
           workers[w].pc \in HashedPath =>
               /\ ~workers[w].hasher
               /\ UnitOf(w).cached
               /\ UnitOf(w).state = Hashed
               /\ UnitOf(w).msg # Nil

\* A second worker reads the parsed message of a unit the first worker has
\* just marked Hashed and is still working on.
C15_Witness ==
    \E x \in Payloads, w1, w2 \in Workers :
        /\ workers[w1].data = x /\ workers[w1].hasher /\ workers[w1].pc = "contains"
        /\ workers[w2].data = x /\ workers[w2].pc = "hashedReceived"
        /\ workUnits[x].msg = MessageFromBytes(x)

(***************************************************************************)
(* C16 as stated: whenever the state of a cached unit changes to Hashed or *)
(* to Invalid, some worker holds the unit's processing lock.               *)
(***************************************************************************)
C16_StateWrittenUnderLock ==
    [][\A x \in Payloads :
          (workUnits[x].cached /\ workUnits'[x].cached
              /\ workUnits'[x].state # workUnits[x].state
              /\ workUnits'[x].state \in Terminal) =>
              workUnits[x].processingLock # Nil]_vars

(***************************************************************************)
(* C17. Retain/release balance: the retain count of a payload's cache      *)
(* entry equals the number of workers between workUnitFor and Release on   *)
(* that payload, so the entry is cached while a worker processes it and    *)
(* the count is zero when no task is in flight; an entry that is not       *)
(* cached is retained by nobody.                                           *)
(***************************************************************************)
Holders(x) == {w \in WorkersOn(x) : workers[w].pc # "workUnitFor"}

C17_RetainReleaseBalance ==
    \A x \in Payloads :
        /\ workUnits[x].retain = Cardinality(Holders(x))
        /\ Holders(x) # {} => workUnits[x].cached
        /\ ~workUnits[x].cached => workUnits[x].retain = 0

\* Two workers hold a handle on the same unit, one of them hashing it.
C17_Witness ==
    \E x \in Payloads :
        /\ workUnits[x].cached
        /\ workUnits[x].retain = 2
        /\ Holders(x) = Workers
        /\ \A w \in Workers : workers[w].pc \in HashingPath \cup {"release"}

(***************************************************************************)
(* C18 as stated: a call that got a request handle from the request queue  *)
(* returns having fired exactly one MessageProcessed, carrying that        *)
(* request and the delivering peer, and no BroadcastMessage.               *)
(***************************************************************************)
C18_RequestForwarded ==
    \A w \in Workers :
        (workers[w].pc = "release" /\ workers[w].request # Nil) =>
            /\ Len(workers[w].events) = 1
            /\ workers[w].events[1].event = "MessageProcessed"
            /\ workers[w].events[1].request = workers[w].request
            /\ workers[w].events[1].peer = workers[w].peer

(***************************************************************************)
(* C19. Progress of hashing: with workers scheduled fairly, a unit in      *)
(* Hashing reaches Hashed or Invalid, a worker that holds or waits for a   *)
(* processing lock gets past it, and every task returns.                   *)
(***************************************************************************)
C19_HashingProgress ==
    /\ \A x \in Payloads :
           (workUnits[x].cached /\ workUnits[x].state = Hashing)
               ~> (workUnits[x].cached /\ workUnits[x].state \in Terminal)
    /\ \A w \in Workers :
           (workers[w].pc # "idle")
               ~> (workers[w].pc = "release" /\ ~HoldsProcessingLock(w))
    /\ \A w \in Workers : (workers[w].pc = "release") ~> (workers[w].pc = "idle")

\* A worker that had to wait for the processing lock while the unit was
\* being hashed has got the lock; the unit has reached Hashed.
C19_Witness ==
    \E x \in Payloads, w1, w2 \in Workers :
        /\ workers[w1].data = x /\ workers[w1].hasher /\ workers[w1].pc = "release"
        /\ workers[w2].data = x /\ workers[w2].pc = "caseHashing"
        /\ workUnits[x].state = Hashed


(***************************************************************************)
(* Request tasks.                                                          *)
(***************************************************************************)
\* Worker w takes a step of a task of message type msgType.
StepOf(w, msgType) ==
    /\ workers[w].pc # "idle"
    /\ workers[w].type = msgType
    /\ \/ workers'[w].pc # workers[w].pc
       \/ workers'[w].toSend # workers[w].toSend

\* Handles on cached message m that workers hold.
HandlesOn(m) ==
    Cardinality({w \in Workers : workers[w].cachedMsg = m})
        + Cardinality({<<w, i>> \in Workers \X (1..2) :
              i <= Len(workers[w].cachedMsgs) /\ workers[w].cachedMsgs[i] = m})

\* C11: a transaction request of another length than 49 bytes, or for a
\* hash the tangle has no message for, returns with no reply; a 49-byte
\* hash of a stored message enqueues exactly one transaction message with
\* that message's raw bytes on the requesting peer and on no other.  No
\* step of the task removes a peer, changes a metric or fires an event, and
\* the handle on the cached message is released when the task returns.
C11_TransactionRequestHandling ==
    /\ [](\A m \in MsgIDs : msgRetain[m] = HandlesOn(m))
    /\ [][\A w \in Workers : StepOf(w, MessageTypeTransactionRequest) =>
            LET data == workers[w].data
                p == workers[w].peer
                hit == data.len = RequestLength /\ data.hash \in tangle
            IN /\ removed' = removed
               /\ UNCHANGED <<metricVars, InvalidRequests, eventVars>>
               /\ workers'[w].events = <<>>
               /\ \A q \in Peers \ {p} : sendQueue'[q] = sendQueue[q]
               /\ workers[w].pc = "messageRequest" =>
                     /\ sendQueue' = sendQueue
                     /\ workers'[w].pc = IF hit THEN "enqueueMessage" ELSE "idle"
                     /\ workers'[w].cachedMsg = IF hit THEN data.hash ELSE Nil
               /\ workers[w].pc = "enqueueMessage" =>
                     /\ sendQueue'[p] = Append(sendQueue[p],
                            [type |-> MessageTypeTransaction, data |-> RawBytes(data.hash)])
                     /\ workers'[w].pc = "releaseMessage"
               /\ workers[w].pc = "releaseMessage" => sendQueue' = sendQueue
               /\ workers'[w].pc = "idle" =>
                     /\ workers[w].sent = IF workers[w].cachedMsg # Nil THEN 1 ELSE 0
                     /\ \A m \in MsgIDs : msgRetain'[m] =
                            msgRetain[m] - IF workers[w].cachedMsg = m THEN 1 ELSE 0
       ]_vars

\* One transaction request was served: its reply is on the requesting peer
\* alone and nobody holds the message any more.
C11_Witness ==
    /\ submitted = 1
    /\ queue = <<>>
    /\ \A w \in Workers : workers[w].pc = "idle"
    /\ \E p \in Peers :
          /\ Len(sendQueue[p]) = 1
          /\ \A q \in Peers \ {p} : sendQueue[q] = <<>>
    /\ \A m \in MsgIDs : msgRetain[m] = 0

\* C12: when no index can be extracted from a milestone request, the task
\* counts one invalid request, removes the requesting peer and returns; it
\* enqueues nothing on any peer and looks nothing up in the tangle.
C12_MalformedMilestoneRequest ==
    [][\A w \in Workers :
          (/\ StepOf(w, MessageTypeMilestoneRequest)
           /\ ExtractRequestedMilestoneIndex(workers[w].data).err) =>
              /\ sendQueue' = sendQueue
              /\ msgRetain' = msgRetain
              /\ workers[w].lookups = 0 /\ workers'[w].lookups = 0
              /\ workers[w].sent = 0 /\ workers'[w].sent = 0
              /\ \/ /\ workers[w].pc = "milestoneRequest"
                    /\ workers'[w].pc = "removePeer"
                    /\ InvalidRequests' = InvalidRequests + 1
                    /\ removed' = removed
                 \/ /\ workers[w].pc = "removePeer"
                    /\ workers'[w].pc = "idle"
                    /\ InvalidRequests' = InvalidRequests
                    /\ removed' = removed \cup {workers[w].peer}
       ]_vars

\* One malformed milestone request was handled: one invalid request is
\* counted, its peer is removed, and no peer was sent anything.
C12_Witness ==
    /\ submitted = 1
    /\ queue = <<>>
    /\ \A w \in Workers : workers[w].pc = "idle"
    /\ InvalidRequests = 1
    /\ Cardinality(removed) = 1
    /\ \A p \in Peers : sendQueue[p] = <<>>



(***************************************************************************)
(* Pruning.                                                                *)
(***************************************************************************)
\* The milestone indexes pruneMilestone has deleted.
Pruned == MilestoneIndexes \ milestones

\* The highest milestone index deleted so far, 0 when there is none.
HighestPruned ==
    IF Pruned = {} THEN 0 ELSE CHOOSE i \in Pruned : \A j \in Pruned : j <= i

\* C20: between calls of pruneDatabase, whether they ran to their end, were
\* stopped by the abort signal or skipped a milestone whose approvees could
\* not be read, the stored PruningIndex is the highest index pruneMilestone
\* has deleted and every index up to it is deleted; no call finds a
\* milestone missing.
C20_PruningIndexConsistency ==
    /\ pruner.panic # MilestoneNotFound
    /\ pruner.pc = "idle" =>
          /\ PruningIndex = HighestPruned
          /\ \A i \in 1..PruningIndex : i \in Pruned


=============================================================================
